---- MODULE Spec2Model ----
(***************************************************************************)
(* LexDanNet: matching of Wikidata lexemes against the DanNet dump.        *)
(*                                                                         *)
(* Two objects are modelled.  LexDanNet (src/src/models/__init__.py)       *)
(* extracts forms and parts of speech from two payloads, joins them into   *)
(* the dataframe df, checks it and then calls Lexeme.match() for every     *)
(* candidate.  Lexeme (src/src/models/lexeme.py) prepares one candidate,   *)
(* looks its lemma up in df and holds the row iteration iterate_matches.   *)
(*                                                                         *)
(* Python None is the value None below.  A string of the dump that the     *)
(* code lower-cases or strips is a tuple of one-character strings; every   *)
(* other string is a TLA+ string.                                          *)
(***************************************************************************)
EXTENDS Integers, Sequences, FiniteSets, TLC

\* ------------------------------------------------------------ bounds
MaxChunks == 2      \* chunks of one payload
MaxCandidates == 2  \* candidate lexemes returned by the SPARQL query
MaxRows == 2        \* rows of the dataframe a Lexeme is constructed with
MaxSenses == 2      \* senses of a lexeme entity
MaxRounds == 2      \* rounds of the gloss loop that are followed

\* ------------------------------------------------------------ values
None == "<None>"

DumpIds == {"w1", "w2"}
Forms == {"dyr", "hus"}
Noun == <<"N", "o", "u", "n">>
adjective == <<"a", "d", "j", "e", "c", "t", "i", "v", "e">>
Adverb == <<"A", "d", "v", "e", "r", "b">>
PosLabels == {Noun, adjective, Adverb}
Categories == {"Q1084", "Q34698"}
LexemeIds == <<"L1", "L2", "L3">>

\* A payload is a sequence of chunks: a chunk the pattern matches is the pair
\* of its two groups, any other text is Junk.
Junk == <<>>

SeqsUpTo(S, n) == UNION {[1..k -> S] : k \in 0..n}

Min(a, b) == IF a < b THEN a ELSE b

\* ------------------------------------------------- str.lower, str.strip
LowerChar(c) ==
    CASE c = "N" -> "n" [] c = "O" -> "o" [] c = "U" -> "u"
      [] c = "A" -> "a" [] c = "D" -> "d" [] c = "J" -> "j"
      [] c = "E" -> "e" [] c = "C" -> "c" [] c = "T" -> "t"
      [] c = "I" -> "i" [] c = "V" -> "v" [] c = "R" -> "r"
      [] c = "B" -> "b" [] OTHER -> c

Lower(s) == [i \in DOMAIN s |-> LowerChar(s[i])]

RECURSIVE LStrip(_)
LStrip(s) == IF s # <<>> /\ Head(s) = " " THEN LStrip(Tail(s)) ELSE s

RECURSIVE RStrip(_)
RStrip(s) ==
    IF s # <<>> /\ s[Len(s)] = " " THEN RStrip(SubSeq(s, 1, Len(s) - 1)) ELSE s

Strip(s) == RStrip(LStrip(s))

\* str(x) of an optional string: str(None) is the string "None"
Str(x) == IF x = None THEN "None" ELSE x

\* ------------------------------------------------------ LexDanNet, pure
\* re.findall: the matched chunks, in payload order
FindAll(payload) == SelectSeq(payload, LAMBDA c : c # Junk)

ExtractedForms(payload) ==
    LET m == FindAll(payload)
    IN  [i \in DOMAIN m |-> [id |-> m[i][1], form |-> m[i][2]]]

ExtractedPos(payload) ==
    LET m == FindAll(payload)
    IN  [i \in DOMAIN m |-> [id |-> m[i][1], pos |-> Strip(m[i][2])]]

\* mutant: the label is compared as it is, without lower()
map_pos_to_pos_id_exact(pos) ==
    IF pos = <<"n", "o", "u", "n">> THEN "Q1084"
    ELSE IF pos = <<"a", "d", "j", "e", "c", "t", "i", "v", "e">> THEN "Q34698"
    ELSE IF pos = <<"v", "e", "r", "b">> THEN "Q24905"
    ELSE None

map_pos_to_pos_id(pos) ==
    LET pos_lower == Lower(pos)
    IN  IF pos_lower = <<"n", "o", "u", "n">> THEN "Q1084"
        ELSE IF pos_lower = <<"a", "d", "j", "e", "c", "t", "i", "v", "e">>
             THEN "Q34698"
        ELSE IF pos_lower = <<"v", "e", "r", "b">> THEN "Q24905"
        ELSE None

\* one row of the joined dataframe: columns id, pos, form, pos_id
JoinedRow(p, f) ==
    [id |-> p.id, pos |-> p.pos, form |-> f.form,
     pos_id |-> map_pos_to_pos_id(p.pos)]

\* mutant: the left row is paired with every right row, whatever its id
MergeOneCross(p, forms) == [j \in DOMAIN forms |-> JoinedRow(p, forms[j])]

\* the rows that one left (pos) row gives with the right (forms) frame
MergeOne(p, forms) ==
    LET hits == SelectSeq(forms, LAMBDA f : f.id = p.id)
    IN  [j \in DOMAIN hits |-> JoinedRow(p, hits[j])]

\* pd.merge(pos_df, forms_df, on="id", how="inner"), left key order kept
RECURSIVE Merge(_, _)
Merge(pos, forms) ==
    IF pos = <<>> THEN <<>>
    ELSE MergeOne(Head(pos), forms) \o Merge(Tail(pos), forms)

Ids(frame) == {frame[i].id : i \in DOMAIN frame}

\* mutant: the duplicates are counted in the 'form' column
NumOfDuplicateForms(frame) ==
    Len(frame) - Cardinality({frame[i].form : i \in DOMAIN frame})

\* df["id"].duplicated().sum(): every occurrence after the first of its id
NumOfDuplicates(frame) == Len(frame) - Cardinality(Ids(frame))

\* df[df["form"] == lemma], dataframe order kept
Lookup(frame, lemma) == SelectSeq(frame, LAMBDA r : r.form = lemma)

\* ---------------------------------------------------------- Lexeme, pure
\* Lexeme.senses: the senses of the entity as last fetched; a sense is TRUE
\* when sense.glosses.get(language="da") is not None
senses(e) == e.senses

\* Lexeme.glosses
glosses(e) == SelectSeq(senses(e), LAMBDA g : g)

\* mutant: handle_no_senses never sets skip
NoSensesIgnored(e) == FALSE

\* handle_no_senses: "if not self.senses"
NoSenses(e) == senses(e) = <<>>

\* the if of make_sure_we_have_danish_glosses_for_all_senses
MissingGlosses(e) ==
    \/ senses(e) # <<>> /\ glosses(e) = <<>>
    \/ Len(senses(e)) # Len(glosses(e))

\* mutant: the loop runs only while no sense at all has a gloss
GlossLoopWhileNoGloss(e) == senses(e) # <<>> /\ glosses(e) = <<>>

\* the while of make_sure_we_have_danish_glosses_for_all_senses
GlossLoopContinues(e) == Len(senses(e)) # Len(glosses(e))

\* mutant: every row counts as a category match
CategoryMatchAny(dannet_pos_qid, qid) == TRUE

\* match_row: "if dannet_pos_qid == str(self.lexical_category_qid)"
CategoryMatch(dannet_pos_qid, qid) == dannet_pos_qid = Str(qid)

\* mutant: the default choice "No" is taken as the approval
match_approved_inverted(answer) == answer = "No"

\* match_approved: answer["choice"] == "Yes"
match_approved(answer) == answer = "Yes"

\* mutant: the claim carries the lexeme id instead of the DanNet id
MatchClaimOfLexemeId(id, dannet_id) ==
    [lexeme_id |-> id, prop |-> "P6140", value |-> id]

\* upload_match: the claim ExternalID(prop_nr="P6140", value=dannet_id)
MatchClaim(id, dannet_id) ==
    [lexeme_id |-> id, prop |-> "P6140", value |-> dannet_id]

\* mutant: upload_match leaves the guard unset
UploadedFlagUnset == FALSE

\* upload_match: the value of already_matched_and_uploaded after the write
UploadedFlag == TRUE

\* mutant: the marker is written with the DanNet id property
MissingInClaimAsMatch(id) ==
    [lexeme_id |-> id, prop |-> "P6140", value |-> "Q123739672"]

\* upload_missing_in_statement: Item(prop_nr="P9660", value="Q123739672")
MissingInClaim(id) ==
    [lexeme_id |-> id, prop |-> "P9660", value |-> "Q123739672"]

\* wbi.item.get(entity_id=qid).labels.get(language="en")
CategoryLabel(qid) ==
    CASE qid = "Q1084" -> "noun" [] qid = "Q34698" -> "adjective"
      [] OTHER -> None

\* what wbi.lexeme.get can return: the Danish lemma (None when the lexeme has
\* none), the lexical category and the senses
Entities ==
    [lemma : {"dyr", None}, category : Categories,
     senses : SeqsUpTo(BOOLEAN, MaxSenses)]

\* wbi.lexeme.get(entity_id=id): what the knowledge base may hold for id.
\* HarnessId names a lexeme of any content; the candidates of a run are
\* lexemes with one glossed sense (match() never reads the senses)
HarnessId == "L0"
\* AnyCategoryId names a lexeme with the lemma "dyr" of any of AllCategories
AnyCategoryId == "L0c"
AllCategories == {"Q1084", "Q34698", "Q24905", "Q380057"}
Kb(id) ==
    IF id = HarnessId THEN Entities
    ELSE IF id = AnyCategoryId
    THEN [lemma : {"dyr"}, category : AllCategories,
          senses : SeqsUpTo(BOOLEAN, MaxSenses)]
    ELSE {e \in Entities : e.senses = <<TRUE>>}

NoEntity == [lemma |-> None, category |-> None, senses |-> <<>>]

\* ------------------------------------------------------------- state
VARIABLES
    \* LexDanNet
    forms_xml, pos_xml, forms, pos, df, no_dannet_lexeme_ids,
    pc,         \* the method of LexDanNet.start() to run next
    error,      \* the ValueError that ended the run, or None
    cursor,     \* position of the for loop in no_dannet_lexeme_ids
    \* Lexeme
    lexeme_id, lexeme, lemma, lexical_category_qid, lexical_category_label,
    matches, already_matched_and_uploaded, skip,
    lpc,        \* position of the Lexeme: new, matched, gloss_loop, rows, done
    row,        \* position of the for loop of iterate_matches in matches
    \* the knowledge base and the operator, as the program acts on them
    writes,     \* claims written by lexeme.write, in order
    prompts,    \* approval prompts shown, with the answer given
    asks,       \* "Press enter to continue" prompts shown
    reads,      \* calls of wbi.lexeme.get
    examined    \* rows of matches whose category match_row has compared

dannet_vars ==
    <<forms_xml, pos_xml, forms, pos, df, no_dannet_lexeme_ids, pc, error,
      cursor>>
lexeme_vars ==
    <<lexeme_id, lexeme, lemma, lexical_category_qid, lexical_category_label,
      matches, already_matched_and_uploaded, skip, lpc, row>>
world_vars == <<writes, prompts, asks, reads, examined>>
vars == <<dannet_vars, lexeme_vars, world_vars>>

\* ---------------------------------------------------- Lexeme, actions
\* Lexeme(lexeme_id=id, wbi=..., df=df): the field defaults (matches is None
\* until do_matching sets it: the empty sequence here)
NewLexeme(id) ==
    /\ lexeme_id = id
    /\ lexeme = NoEntity
    /\ lemma = ""
    /\ lexical_category_qid = ""
    /\ lexical_category_label = ""
    /\ matches = <<>>
    /\ already_matched_and_uploaded = FALSE
    /\ skip = FALSE

\* match() on a lexeme just constructed for id: prepare() fetches entity e,
\* do_matching() looks the lemma up and uploads the marker on no match
MatchBody(id, e) ==
    LET found == Lookup(df, Str(e.lemma))
    IN  /\ lexeme_id' = id
        /\ lexeme' = e
        /\ lemma' = Str(e.lemma)
        /\ lexical_category_qid' = e.category
        /\ lexical_category_label' = CategoryLabel(e.category)
        /\ matches' = found
        /\ already_matched_and_uploaded' = FALSE
        /\ skip' = FALSE
        /\ row' = 1
        /\ lpc' = "matched"
        /\ reads' = reads + 1
        /\ writes' = IF found = <<>>
                     THEN Append(writes, MissingInClaim(id))
                     ELSE writes
        /\ examined' = {}
        /\ UNCHANGED <<prompts, asks>>

\* l.match() called on the constructed Lexeme
Match ==
    /\ pc = "harness"
    /\ lpc = "new"
    /\ \E e \in Kb(lexeme_id) : MatchBody(lexeme_id, e)
    /\ UNCHANGED dannet_vars

\* where iterate_matches goes once the glosses are complete
RowsOrDone == IF matches = <<>> THEN "done" ELSE "rows"

\* iterate_matches() up to its first prompt: handle_no_senses, then the if
\* of make_sure_we_have_danish_glosses_for_all_senses
IterateMatches ==
    /\ pc = "harness"
    /\ lpc = "matched"
    /\ IF NoSenses(lexeme)
       THEN skip' = TRUE /\ lpc' = "done"
       ELSE /\ skip' = skip
            /\ lpc' = IF MissingGlosses(lexeme) /\ GlossLoopContinues(lexeme)
                      THEN "gloss_loop"
                      ELSE RowsOrDone
    /\ UNCHANGED <<lexeme_id, lexeme, lemma, lexical_category_qid,
                   lexical_category_label, matches,
                   already_matched_and_uploaded, row>>
    /\ UNCHANGED <<dannet_vars, world_vars>>

\* one round of the while loop: ask_user_to_add_glosses(), then the lexeme
\* is fetched again and the loop condition is evaluated on it.  The entity
\* fetched again has any senses; its lemma and category, which nothing reads
\* after prepare(), are taken as unchanged
GlossRound ==
    /\ pc = "harness"
    /\ lpc = "gloss_loop"
    /\ asks < MaxRounds
    /\ asks' = asks + 1
    /\ reads' = reads + 1
    /\ \E e \in Kb(lexeme_id) :
         /\ e.lemma = lexeme.lemma
         /\ e.category = lexeme.category
         /\ lexeme' = e
         /\ lpc' = IF GlossLoopContinues(e) THEN "gloss_loop" ELSE RowsOrDone
    /\ UNCHANGED <<lexeme_id, lemma, lexical_category_qid,
                   lexical_category_label, matches,
                   already_matched_and_uploaded, skip, row>>
    /\ UNCHANGED <<dannet_vars, writes, prompts, examined>>

\* match_row(index, match) on the next row of matches
MatchRow ==
    /\ pc = "harness"
    /\ lpc = "rows"
    /\ LET m == matches[row]
       IN  IF already_matched_and_uploaded
           THEN UNCHANGED <<already_matched_and_uploaded, world_vars>>
           ELSE /\ examined' = examined \cup {row}
                /\ IF CategoryMatch(m.pos_id, lexical_category_qid)
                   THEN \E answer \in {"Yes", "No"} :
                          /\ prompts' = Append(prompts,
                               [row |-> row, id |-> m.id, answer |-> answer])
                          /\ IF match_approved(answer)
                             THEN /\ writes' = Append(writes,
                                       MatchClaim(lexeme_id, m.id))
                                  /\ already_matched_and_uploaded' =
                                       UploadedFlag
                             ELSE UNCHANGED
                                    <<writes, already_matched_and_uploaded>>
                   ELSE UNCHANGED
                          <<prompts, writes, already_matched_and_uploaded>>
                /\ UNCHANGED <<asks, reads>>
    /\ row' = row + 1
    /\ lpc' = IF row + 1 > Len(matches) THEN "done" ELSE "rows"
    /\ UNCHANGED <<lexeme_id, lexeme, lemma, lexical_category_qid,
                   lexical_category_label, matches, skip>>
    /\ UNCHANGED dannet_vars

\* a dataframe as create_dataframes_and_export_csv builds its rows
DfRows ==
    {JoinedRow([id |-> i, pos |-> p], [id |-> i, form |-> f]) :
        i \in DumpIds, p \in PosLabels, f \in Forms}

\* a Lexeme constructed with some dataframe, before any method is called
InitLexeme ==
    /\ forms_xml = <<>> /\ pos_xml = <<>> /\ forms = <<>> /\ pos = <<>>
    /\ df \in SeqsUpTo(DfRows, MaxRows)
    /\ no_dannet_lexeme_ids = <<>>
    /\ pc = "harness" /\ error = None /\ cursor = 1
    /\ NewLexeme(HarnessId)
    /\ lpc = "new" /\ row = 1
    /\ writes = <<>> /\ prompts = <<>> /\ asks = 0 /\ reads = 0
    /\ examined = {}

NextLexeme == Match \/ IterateMatches \/ GlossRound \/ MatchRow

SpecLexeme == InitLexeme /\ [][NextLexeme]_vars

\* -------------------------------------------------- LexDanNet, actions
NoError == [kind |-> None, n |-> 0]
ValueError(kind, n) == [kind |-> kind, n |-> n]

FormChunks == {Junk} \cup {<<i, f>> : i \in DumpIds, f \in Forms}
PosChunks == {Junk} \cup {<<i, p>> : i \in DumpIds, p \in PosLabels}

\* LexDanNet(): the field defaults; no Lexeme exists yet
Init ==
    /\ forms_xml = <<>> /\ pos_xml = <<>> /\ forms = <<>> /\ pos = <<>>
    /\ df = <<>> /\ no_dannet_lexeme_ids = <<>>
    /\ pc = "unzip_content" /\ error = NoError /\ cursor = 1
    /\ NewLexeme(None)
    /\ lpc = "new" /\ row = 1
    /\ writes = <<>> /\ prompts = <<>> /\ asks = 0 /\ reads = 0
    /\ examined = {}

Raise(kind, n) == pc' = "aborted" /\ error' = ValueError(kind, n)

Goto(next) == pc' = next /\ error' = error

\* unzip_content: the archive holds a words.rdf and a part_of_speech.rdf
\* file or lacks one; the payloads are what the two files hold
UnzipContent ==
    /\ pc = "unzip_content"
    /\ \E has_words \in BOOLEAN, has_pos \in BOOLEAN :
         IF ~has_words
         THEN Raise("No 'words.owl' file found", 0)
              /\ UNCHANGED <<forms_xml, pos_xml>>
         ELSE IF ~has_pos
         THEN Raise("No 'part_of_speech.rdf' file found", 0)
              /\ UNCHANGED <<forms_xml, pos_xml>>
         ELSE /\ forms_xml' \in SeqsUpTo(FormChunks, MaxChunks)
              /\ pos_xml' \in SeqsUpTo(PosChunks, MaxChunks)
              /\ Goto("extract_forms")
    /\ UNCHANGED <<forms, pos, df, no_dannet_lexeme_ids, cursor>>
    /\ UNCHANGED <<lexeme_vars, world_vars>>

ExtractForms ==
    /\ pc = "extract_forms"
    /\ IF FindAll(forms_xml) = <<>>
       THEN Raise("No matches found", 0) /\ forms' = forms
       ELSE forms' = ExtractedForms(forms_xml)
            /\ Goto("extract_part_of_speech")
    /\ UNCHANGED <<forms_xml, pos_xml, pos, df, no_dannet_lexeme_ids, cursor>>
    /\ UNCHANGED <<lexeme_vars, world_vars>>

ExtractPartOfSpeech ==
    /\ pc = "extract_part_of_speech"
    /\ pos' = ExtractedPos(pos_xml)
    /\ Goto("create_dataframes_and_export_csv")
    /\ UNCHANGED <<forms_xml, pos_xml, forms, df, no_dannet_lexeme_ids,
                   cursor>>
    /\ UNCHANGED <<lexeme_vars, world_vars>>

CreateDataframesAndExportCsv ==
    /\ pc = "create_dataframes_and_export_csv"
    /\ df' = Merge(pos, forms)
    /\ Goto("check_id_and_pos_integrity")
    /\ UNCHANGED <<forms_xml, pos_xml, forms, pos, no_dannet_lexeme_ids,
                   cursor>>
    /\ UNCHANGED <<lexeme_vars, world_vars>>

\* check_id_and_pos_integrity builds its ValueErrors without raising them
CheckIdAndPosIntegrity ==
    /\ pc = "check_id_and_pos_integrity"
    /\ Goto("check_duplicates")
    /\ UNCHANGED <<forms_xml, pos_xml, forms, pos, df, no_dannet_lexeme_ids,
                   cursor>>
    /\ UNCHANGED <<lexeme_vars, world_vars>>

CheckDuplicates ==
    /\ pc = "check_duplicates"
    /\ IF NumOfDuplicates(df) = 0
       THEN Goto("fetch_danish_lexeme_ids_without_dannet_property")
       ELSE Raise("duplicate IDs in the dataframe", NumOfDuplicates(df))
    /\ UNCHANGED <<forms_xml, pos_xml, forms, pos, df, no_dannet_lexeme_ids,
                   cursor>>
    /\ UNCHANGED <<lexeme_vars, world_vars>>

\* the SPARQL query returns some list of lexeme ids
FetchDanishLexemeIdsWithoutDannetProperty ==
    /\ pc = "fetch_danish_lexeme_ids_without_dannet_property"
    /\ \E n \in 0..Min(MaxCandidates, Len(LexemeIds)) :
         no_dannet_lexeme_ids' = SubSeq(LexemeIds, 1, n)
    /\ Goto("find_dannet_ids_for_lexemes_and_upload")
    /\ UNCHANGED <<forms_xml, pos_xml, forms, pos, df, cursor>>
    /\ UNCHANGED <<lexeme_vars, world_vars>>

\* mutant: the loop steps over every other candidate
AdvanceByTwo(c) == c + 2

\* the for statement moves on to the next element of the list
Advance(c) == c + 1

\* one pass of the for loop: l = Lexeme(...); l.match()
ProcessLexeme ==
    /\ pc = "find_dannet_ids_for_lexemes_and_upload"
    /\ cursor <= Len(no_dannet_lexeme_ids)
    /\ \E e \in Kb(no_dannet_lexeme_ids[cursor]) :
         MatchBody(no_dannet_lexeme_ids[cursor], e)
    /\ cursor' = Advance(cursor)
    /\ UNCHANGED <<forms_xml, pos_xml, forms, pos, df, no_dannet_lexeme_ids,
                   pc, error>>

\* the for loop is exhausted: start() returns
Return ==
    /\ pc = "find_dannet_ids_for_lexemes_and_upload"
    /\ cursor > Len(no_dannet_lexeme_ids)
    /\ Goto("done")
    /\ UNCHANGED <<forms_xml, pos_xml, forms, pos, df, no_dannet_lexeme_ids,
                   cursor>>
    /\ UNCHANGED <<lexeme_vars, world_vars>>

Next ==
    \/ UnzipContent
    \/ ExtractForms
    \/ ExtractPartOfSpeech
    \/ CreateDataframesAndExportCsv
    \/ CheckIdAndPosIntegrity
    \/ CheckDuplicates
    \/ FetchDanishLexemeIdsWithoutDannetProperty
    \/ ProcessLexeme
    \/ Return

Spec == Init /\ [][Next]_vars

\* ================================================================ claims
CrossReferences == SelectSeq(writes, LAMBDA w : w.prop = "P6140")
Approvals == SelectSeq(prompts, LAMBDA p : p.answer = "Yes")
Offered == {prompts[i].row : i \in DOMAIN prompts}
\* the rows of matches whose pos_id is the candidate's category
CategoryRows ==
    {r \in DOMAIN matches : matches[r].pos_id = lexical_category_qid}
Glossed(e) == Cardinality({i \in DOMAIN e.senses : e.senses[i]})

\* C1: in one run of iterate_matches at most one P6140 claim is written;
\* once an approved upload has set already_matched_and_uploaded no later row
\* is offered or examined: the approved prompt is the last prompt, every
\* prompt before it was answered No, and no row after it is examined.
C1_AtMostOneCrossReference ==
    /\ Len(CrossReferences) <= 1
    /\ Len(CrossReferences) = 1 <=> already_matched_and_uploaded
    /\ already_matched_and_uploaded =>
         /\ prompts # <<>>
         /\ prompts[Len(prompts)].answer = "Yes"
         /\ \A i \in 1..(Len(prompts) - 1) : prompts[i].answer = "No"
         /\ \A r \in examined : r <= prompts[Len(prompts)].row

\* a later row that also matches the category was passed over after an upload
W1_LaterCategoryRowSkipped ==
    /\ lpc = "done"
    /\ already_matched_and_uploaded
    /\ \E r \in CategoryRows : r > prompts[Len(prompts)].row

\* C2: when match() has returned for a candidate with a sense, all senses
\* glossed and a row of its matches in its category, that row has been
\* presented to the approver.
X2_MatchPresentsCategoryRow ==
    ( /\ lpc = "matched"
      /\ lexeme.senses # <<>>
      /\ Glossed(lexeme) = Len(lexeme.senses)
      /\ CategoryRows # {} )
    => Offered # {}

\* C3: after match() on a candidate whose lemma is the form of no row of the
\* dataframe, exactly one claim has been written for it, the marker
\* P9660 -> Q123739672, and no prompt of either kind has been shown.
C3_NoMatchUploadsOnlyMarker ==
    ( /\ lpc = "matched"
      /\ \A i \in DOMAIN df : df[i].form # lemma )
    => /\ SelectSeq(writes, LAMBDA w : w.lexeme_id = lexeme_id) =
            <<[lexeme_id |-> lexeme_id, prop |-> "P9660",
               value |-> "Q123739672"]>>
       /\ CrossReferences = <<>>
       /\ prompts = <<>> /\ asks = 0

\* a candidate with a Danish lemma that a non-empty dataframe does not hold
W3_LemmaNotInIndex ==
    /\ lpc = "matched"
    /\ lexeme.lemma = "dyr"
    /\ df # <<>>
    /\ \A i \in DOMAIN df : df[i].form # "dyr"
    /\ Len(writes) = cursor - 1
    /\ cursor = 3

\* C4: the P6140 claims written are, in order, the dump ids of the rows
\* answered Yes: every write follows a Yes for its row and carries that
\* row's id, and a row answered No gives no write.
C4_WriteOnlyAfterYes ==
    /\ Len(CrossReferences) = Len(Approvals)
    /\ \A i \in DOMAIN Approvals :
         /\ i <= Len(CrossReferences)
         /\ CrossReferences[i].value = matches[Approvals[i].row].id
         /\ CrossReferences[i].lexeme_id = lexeme_id

\* a row was rejected, a later row approved and uploaded
W4_RejectedThenApproved ==
    /\ lpc = "done"
    /\ Len(prompts) = 2
    /\ prompts[1].answer = "No" /\ prompts[2].answer = "Yes"
    /\ matches[1].id # matches[2].id
    /\ Len(CrossReferences) = 1

\* C5: a candidate that had no senses when loaded (the entity of the only
\* fetch) ends iterate_matches skipped: skip is set, the gloss loop was not
\* entered, no prompt was shown, no row examined and nothing written beyond
\* what match() wrote.
C5_NoSensesSkipped ==
    /\ ( /\ lpc \notin {"new", "matched"}
         /\ reads = 1
         /\ lexeme.senses = <<>> )
       => /\ skip /\ lpc = "done"
          /\ asks = 0 /\ prompts = <<>> /\ examined = {}
          /\ CrossReferences = <<>>
          /\ Len(writes) = IF matches = <<>> THEN 1 ELSE 0
    /\ skip => reads = 1 /\ lexeme.senses = <<>>

\* skipped although a row of the matches is in the candidate's category
W5_SkippedWithCategoryRow ==
    /\ lpc = "done" /\ skip /\ CategoryRows # {}

\* C6: rows are iterated only when the entity as last fetched has as many
\* glossed senses as senses; while the counts differ the Lexeme stays in the
\* gloss loop, where no row is examined or offered, and every round of the
\* loop is one prompt and one fetch.
C6_GlossGate ==
    /\ (lpc = "rows" \/ examined # {} \/ prompts # <<>>)
         => Glossed(lexeme) = Len(lexeme.senses)
    /\ lpc = "gloss_loop" =>
         /\ Glossed(lexeme) # Len(lexeme.senses)
         /\ examined = {} /\ prompts = <<>> /\ CrossReferences = <<>>
    /\ lpc # "new" => reads = asks + 1
    /\ (asks > 0 /\ lpc # "gloss_loop") =>
         Glossed(lexeme) = Len(lexeme.senses)

\* the gate opened after two rounds
W6_GateOpenedAfterRounds ==
    /\ lpc = "rows" /\ asks = 2 /\ Len(lexeme.senses) = 2

\* C7: a row examined by match_row is offered exactly when its pos_id
\* equals the candidate's category id; nothing is written for a row whose
\* pos_id differs, and until an upload every row is examined in turn.
C7_OfferedOnlyOnCategoryMatch ==
    /\ \A r \in examined : r \in Offered <=> r \in CategoryRows
    /\ Offered \subseteq examined
    /\ \A i \in DOMAIN CrossReferences :
         \E r \in CategoryRows : CrossReferences[i].value = matches[r].id
    /\ ~already_matched_and_uploaded => examined = 1..(row - 1)

\* candidate Q1084 with a Q1084 row and a Q34698 row: only the first offered
W7_NounRowOfferedAdjectiveRowNot ==
    /\ lpc = "done"
    /\ lexical_category_qid = "Q1084"
    /\ Len(matches) = 2
    /\ matches[1].pos_id = "Q1084" /\ matches[2].pos_id = "Q34698"
    /\ examined = {1, 2}
    /\ Offered = {1}

\* C8: when iterate_matches has run through the rows, the rows offered are
\* the category rows up to and including the first one approved (all of
\* them if none was approved), and the claim written is the dump id of that
\* first approved row.
C8_FirstApprovedRowWins ==
    (lpc = "done" /\ ~skip) =>
      IF Approvals # <<>>
      THEN LET y == Approvals[1].row
           IN  /\ Offered = {r \in CategoryRows : r <= y}
               /\ CrossReferences =
                    <<[lexeme_id |-> lexeme_id, prop |-> "P6140",
                       value |-> matches[y].id]>>
               /\ \A i \in DOMAIN prompts :
                    prompts[i].answer = "Yes" <=> prompts[i].row = y
      ELSE /\ Offered = CategoryRows
           /\ CrossReferences = <<>>

\* the second category row was uploaded after the first was rejected
W8_SecondRowWins ==
    /\ lpc = "done"
    /\ Cardinality(CategoryRows) >= 2
    /\ Len(prompts) = 2
    /\ prompts[1].answer = "No"
    /\ Len(CrossReferences) = 1
    /\ CrossReferences[1].value = matches[prompts[2].row].id
    /\ CrossReferences[1].value # matches[prompts[1].row].id

\* the positions of start() after both extractions have returned
AfterExtraction ==
    {"create_dataframes_and_export_csv", "check_id_and_pos_integrity",
     "check_duplicates", "fetch_danish_lexeme_ids_without_dannet_property",
     "find_dannet_ids_for_lexemes_and_upload", "done"}

\* the positions of start() after check_duplicates has returned
AfterCheckDuplicates ==
    {"fetch_danish_lexeme_ids_without_dannet_property",
     "find_dannet_ids_for_lexemes_and_upload", "done"}

\* C9: the run never continues past the extractions with an empty form list
\* or an empty part-of-speech list.
X9_ExtractionNeverEmpty ==
    pc \in AfterExtraction => forms # <<>> /\ pos # <<>>

Occurrences(entries, id) ==
    Cardinality({i \in DOMAIN entries : entries[i].id = id})
HasDuplicateId(entries) ==
    \E i, j \in DOMAIN entries : i # j /\ entries[i].id = entries[j].id
\* the rows the inner join gives for id, less the first
SurplusRows(id) ==
    LET n == Occurrences(pos, id) * Occurrences(forms, id)
    IN  IF n > 0 THEN n - 1 ELSE 0
RECURSIVE SumSurplus(_)
SumSurplus(S) ==
    IF S = {} THEN 0
    ELSE LET id == CHOOSE x \in S : TRUE
         IN  SurplusRows(id) + SumSurplus(S \ {id})
JoinDuplicates == SumSurplus(DumpIds)

\* C10 as stated: whenever the extracted forms or parts of speech hold an id
\* twice, check_duplicates does not return: the run is not past it.
X10_DuplicateInputAlwaysRaises ==
    (HasDuplicateId(forms) \/ HasDuplicateId(pos))
      => pc \notin AfterCheckDuplicates

\* C10 as amended: past check_duplicates the dataframe holds no id twice;
\* check_duplicates raises exactly when an id occurs more than once in one
\* of the two lists and at least once in the other, and the error reports
\* the number of surplus rows of the join.
C10_JoinDuplicatesRaise ==
    /\ pc \in AfterCheckDuplicates =>
         /\ ~HasDuplicateId(df)
         /\ JoinDuplicates = 0
    /\ (pc = "aborted" /\ error.kind = "duplicate IDs in the dataframe") =>
         /\ JoinDuplicates > 0
         /\ error.n = JoinDuplicates
         /\ HasDuplicateId(df)
    /\ (pc = "aborted" /\ JoinDuplicates = 0) =>
         error.kind # "duplicate IDs in the dataframe"

\* check_duplicates raised on a join with a repeated id
W10_DuplicateRaised ==
    /\ pc = "aborted"
    /\ error = [kind |-> "duplicate IDs in the dataframe", n |-> 1]
    /\ Len(df) = 2

\* the extractions have both returned or the run has ended
PayloadsRead == pc \notin {"unzip_content", "extract_forms",
                           "extract_part_of_speech"}

\* C11: in a run with a fatal integrity error (an id twice in the joined
\* index, no record matched in the forms or in the part-of-speech payload, a
\* payload missing from the archive) the candidate list is never fetched, no
\* lexeme is read and no claim is written.
X11_IntegrityErrorBeforeCandidates ==
    ( \/ pc = "aborted"
      \/ PayloadsRead /\ (forms = <<>> \/ pos = <<>>)
      \/ PayloadsRead /\ JoinDuplicates > 0 )
    => /\ no_dannet_lexeme_ids = <<>>
       /\ reads = 0 /\ writes = <<>> /\ prompts = <<>> /\ asks = 0

\* C12: once the dataframe is built, each of its rows has an id that occurs
\* in both lists and carries a form and a pos recorded for that id, an id of
\* only one list has no row, and each pairing of the two lists on an id has
\* its row.
C12_InnerJoinOnId ==
    pc \in AfterExtraction \ {"create_dataframes_and_export_csv"} =>
      /\ \A r \in DOMAIN df :
           /\ \E i \in DOMAIN pos :
                pos[i].id = df[r].id /\ pos[i].pos = df[r].pos
           /\ \E j \in DOMAIN forms :
                forms[j].id = df[r].id /\ forms[j].form = df[r].form
      /\ \A i \in DOMAIN pos, j \in DOMAIN forms :
           pos[i].id = forms[j].id =>
             \E r \in DOMAIN df :
               /\ df[r].id = pos[i].id
               /\ df[r].pos = pos[i].pos /\ df[r].form = forms[j].form
      /\ \A id \in DumpIds :
           Occurrences(df, id) = Occurrences(pos, id) * Occurrences(forms, id)

\* one joined row, the other id of the forms list dropped
W12_OneSidedIdsDropped ==
    /\ pc = "check_duplicates"
    /\ Len(df) = 1
    /\ \E j \in DOMAIN forms : forms[j].id # df[1].id
    /\ Len(pos) = 1 /\ Len(forms) = 2

\* ------------------------------------------- map_pos_to_pos_id on labels
UpperChar(c) ==
    CASE c = "n" -> "N" [] c = "o" -> "O" [] c = "u" -> "U"
      [] c = "a" -> "A" [] c = "d" -> "D" [] c = "j" -> "J"
      [] c = "e" -> "E" [] c = "c" -> "C" [] c = "t" -> "T"
      [] c = "i" -> "I" [] c = "v" -> "V" [] c = "r" -> "R"
      [] c = "b" -> "B" [] OTHER -> c

\* word in every mix of upper and lower case
CaseVariants(word) ==
    {[i \in DOMAIN word |-> IF up[i] THEN UpperChar(word[i]) ELSE word[i]] :
        up \in [DOMAIN word -> BOOLEAN]}

NounLabels == CaseVariants(<<"n", "o", "u", "n">>)
AdjectiveLabels ==
    CaseVariants(<<"a", "d", "j", "e", "c", "t", "i", "v", "e">>)
VerbLabels == CaseVariants(<<"v", "e", "r", "b">>)
\* labels that are none of the three words
OtherLabels ==
    {Adverb, <<>>, <<"n", "o", "u">>, <<"n", "o", "u", "n", "s">>,
     <<" ", "N", "o", "u", "n">>, <<"P", "r", "o", "n", "o", "u", "n">>,
     <<"N", "o", "n", "e">>}
AnyLabels == NounLabels \cup AdjectiveLabels \cup VerbLabels \cup OtherLabels

\* a Lexeme constructed with a one-row dataframe whose 'pos_id' column is
\* still to be set from its 'pos' column
InitPos ==
    /\ forms_xml = <<>> /\ pos_xml = <<>> /\ forms = <<>> /\ pos = <<>>
    /\ \E label \in AnyLabels, i \in DumpIds :
         df = <<[id |-> i, pos |-> label, form |-> "dyr", pos_id |-> None]>>
    /\ no_dannet_lexeme_ids = <<>>
    /\ pc = "apply_map_pos_to_pos_id" /\ error = NoError /\ cursor = 1
    /\ NewLexeme(AnyCategoryId)
    /\ lpc = "new" /\ row = 1
    /\ writes = <<>> /\ prompts = <<>> /\ asks = 0 /\ reads = 0
    /\ examined = {}

\* joined_df["pos_id"] = joined_df["pos"].apply(self.map_pos_to_pos_id)
ApplyMapPosToPosId ==
    /\ pc = "apply_map_pos_to_pos_id"
    /\ df' = [r \in DOMAIN df |->
                [df[r] EXCEPT !.pos_id = map_pos_to_pos_id(df[r].pos)]]
    /\ pc' = "harness"
    /\ UNCHANGED <<forms_xml, pos_xml, forms, pos, no_dannet_lexeme_ids,
                   error, cursor>>
    /\ UNCHANGED <<lexeme_vars, world_vars>>

NextPos ==
    \/ ApplyMapPosToPosId
    \/ Match
    \/ IterateMatches
    \/ GlossRound
    \/ MatchRow

SpecPos == InitPos /\ [][NextPos]_vars

\* C13: once the pos_id column is set, a label that is noun, adjective or
\* verb in any mix of case has the id of that word, and every other label
\* has the null pos_id, which is no category id; a row with such a label is
\* never offered and its id never uploaded, whatever the candidate category.
C13_PosIdCaseInsensitive ==
    pc = "harness" =>
      \A r \in DOMAIN df :
        /\ df[r].pos \in NounLabels => df[r].pos_id = "Q1084"
        /\ df[r].pos \in AdjectiveLabels => df[r].pos_id = "Q34698"
        /\ df[r].pos \in VerbLabels => df[r].pos_id = "Q24905"
        /\ df[r].pos \in OtherLabels =>
             /\ df[r].pos_id = None
             /\ df[r].pos_id \notin AllCategories
             /\ prompts = <<>>
             /\ \A w \in DOMAIN writes : writes[w].prop # "P6140"

\* a row labelled NOUN was offered to a noun candidate
W13_UpperCaseNounOffered ==
    /\ lpc = "done"
    /\ df[1].pos = <<"N", "O", "U", "N">>
    /\ lexical_category_qid = "Q1084"
    /\ Offered = {1}

\* --------------------------------------------- src/main.py ZipFileHandler
InitMain ==
    /\ forms_xml = <<>> /\ pos_xml = <<>> /\ forms = <<>> /\ pos = <<>>
    /\ df = <<>> /\ no_dannet_lexeme_ids = <<>>
    /\ pc = "start" /\ error = NoError /\ cursor = 1
    /\ NewLexeme(None)
    /\ lpc = "new" /\ row = 1
    /\ writes = <<>> /\ prompts = <<>> /\ asks = 0 /\ reads = 0
    /\ examined = {}

\* start() up to the loop: unzip_content, extract_forms,
\* extract_part_of_speech, create_dataframes_and_export_csv,
\* check_duplicates, fetch_danish_lexeme_ids_without_dannet_property
MainStart ==
    /\ pc = "start"
    /\ \E has_words \in BOOLEAN, has_pos \in BOOLEAN,
          fx \in SeqsUpTo(FormChunks, MaxChunks),
          px \in SeqsUpTo(PosChunks, MaxChunks),
          n \in 0..Min(MaxCandidates, Len(LexemeIds)) :
         LET joined == Merge(ExtractedPos(px), ExtractedForms(fx))
         IN  IF ~has_words
             THEN /\ Raise("No 'words.owl' file found", 0)
                  /\ UNCHANGED <<forms_xml, pos_xml, forms, pos, df,
                                 no_dannet_lexeme_ids>>
             ELSE IF ~has_pos
             THEN /\ Raise("No 'part_of_speech.rdf' file found", 0)
                  /\ UNCHANGED <<forms_xml, pos_xml, forms, pos, df,
                                 no_dannet_lexeme_ids>>
             ELSE IF FindAll(fx) = <<>>
             THEN /\ Raise("No matches found", 0)
                  /\ forms_xml' = fx /\ pos_xml' = px
                  /\ UNCHANGED <<forms, pos, df, no_dannet_lexeme_ids>>
             ELSE IF NumOfDuplicates(joined) # 0
             THEN /\ Raise("duplicate IDs in the dataframe",
                           NumOfDuplicates(joined))
                  /\ forms_xml' = fx /\ pos_xml' = px
                  /\ forms' = ExtractedForms(fx) /\ pos' = ExtractedPos(px)
                  /\ df' = joined
                  /\ UNCHANGED no_dannet_lexeme_ids
             ELSE /\ forms_xml' = fx /\ pos_xml' = px
                  /\ forms' = ExtractedForms(fx) /\ pos' = ExtractedPos(px)
                  /\ df' = joined
                  /\ no_dannet_lexeme_ids' = SubSeq(LexemeIds, 1, n)
                  /\ Goto("for_lexeme_id")
    /\ UNCHANGED cursor
    /\ UNCHANGED <<lexeme_vars, world_vars>>

\* head of one pass of the for loop: the lexeme is fetched and its lemma
\* looked up; with no match the pass ends
MainLexeme ==
    /\ pc = "for_lexeme_id"
    /\ cursor <= Len(no_dannet_lexeme_ids)
    /\ \E e \in Kb(no_dannet_lexeme_ids[cursor]) :
         LET found == Lookup(df, Str(e.lemma))
         IN  /\ lexeme_id' = no_dannet_lexeme_ids[cursor]
             /\ lexeme' = e
             /\ lemma' = Str(e.lemma)
             /\ lexical_category_qid' = e.category
             /\ lexical_category_label' = CategoryLabel(e.category)
             /\ matches' = found
             /\ row' = 1
             /\ reads' = reads + 1
             /\ IF found = <<>>
                THEN pc' = "for_lexeme_id" /\ cursor' = cursor + 1
                ELSE pc' = "for_match" /\ cursor' = cursor
    /\ UNCHANGED <<already_matched_and_uploaded, skip, lpc, examined>>
    /\ UNCHANGED <<writes, prompts, asks, error>>
    /\ UNCHANGED <<forms_xml, pos_xml, forms, pos, df, no_dannet_lexeme_ids>>

\* one pass of "for index, match in matches.iterrows()": on a category
\* match input() returns (enter) or raises KeyboardInterrupt (ctrl-c)
MainRow ==
    /\ pc = "for_match"
    /\ LET m == matches[row]
           last == row + 1 > Len(matches)
       IN  IF m.pos_id = lexical_category_qid
           THEN \E answer \in {"enter", "ctrl-c"} :
                  /\ prompts' = Append(prompts,
                        [row |-> row, id |-> m.id, answer |-> answer])
                  /\ IF answer = "enter"
                     THEN /\ writes' = Append(writes,
                                MatchClaim(lexeme_id, m.id))
                          /\ row' = row + 1
                          /\ pc' = IF last THEN "for_lexeme_id"
                                   ELSE "for_match"
                          /\ cursor' = IF last THEN cursor + 1 ELSE cursor
                     ELSE /\ pc' = "interrupted"
                          /\ UNCHANGED <<writes, row, cursor>>
           ELSE /\ row' = row + 1
                /\ pc' = IF last THEN "for_lexeme_id" ELSE "for_match"
                /\ cursor' = IF last THEN cursor + 1 ELSE cursor
                /\ UNCHANGED <<writes, prompts>>
    /\ examined' = examined \cup {row}
    /\ UNCHANGED <<lexeme_id, lexeme, lemma, lexical_category_qid,
                   lexical_category_label, matches,
                   already_matched_and_uploaded, skip, lpc>>
    /\ UNCHANGED <<asks, reads, error>>
    /\ UNCHANGED <<forms_xml, pos_xml, forms, pos, df, no_dannet_lexeme_ids>>

\* the for loop is exhausted: start() returns
MainReturn ==
    /\ pc = "for_lexeme_id"
    /\ cursor > Len(no_dannet_lexeme_ids)
    /\ Goto("done")
    /\ UNCHANGED <<forms_xml, pos_xml, forms, pos, df, no_dannet_lexeme_ids,
                   cursor>>
    /\ UNCHANGED <<lexeme_vars, world_vars>>

NextMain ==
    \/ MainStart
    \/ MainLexeme
    \/ MainRow
    \/ MainReturn

SpecMain == InitMain /\ [][NextMain]_vars

\* C14: in a run of ZipFileHandler at most one cross-reference claim is
\* written per candidate lexeme: once a row has produced an upload the
\* remaining rows of the same lemma are skipped.
X14_MainAtMostOneCrossReference ==
    \A id \in {LexemeIds[i] : i \in DOMAIN LexemeIds} :
      Len(SelectSeq(CrossReferences, LAMBDA w : w.lexeme_id = id)) <= 1

\* C15: whenever iterate_matches examines a row, the candidate as most
\* recently fetched has at least one sense and every one of its senses has
\* a Danish gloss, also after the gloss gate re-fetched it with another
\* sense list.
X15_ExaminedOnlyWithGlossedSenses ==
    (pc = "harness" /\ (lpc = "rows" \/ examined # {})) =>
      /\ senses(lexeme) # <<>>
      /\ Len(glosses(lexeme)) = Len(senses(lexeme))

\* C16: a candidate without a Danish lemma stops the run with an error:
\* nothing is looked up under a substitute lemma and no claim is written
\* for it.
X16_NoLemmaStopsWithError ==
    (lpc = "matched" /\ lexeme.lemma = None) =>
      /\ pc = "aborted"
      /\ lemma \notin {"None", "dyr", "hus"}
      /\ \A w \in DOMAIN writes : writes[w].lexeme_id # lexeme_id

\* start() is a single thread that keeps running until it returns or raises
FairSpec == Spec /\ WF_vars(Next)

\* the number of candidates visited so far
Visited == reads

\* C17: the run loop terminates; each read of a candidate is the next one of
\* the list, processed to the end (lookup and marker write) in the same
\* step, and at the return every candidate of the list was visited once.
C17_VisitsEachCandidateOnceInOrder ==
    /\ [](pc \in {"find_dannet_ids_for_lexemes_and_upload", "done"} =>
            /\ Visited <= Len(no_dannet_lexeme_ids)
            /\ Visited > 0 =>
                 /\ lexeme_id = no_dannet_lexeme_ids[Visited]
                 /\ lpc = "matched"
            /\ pc = "done" => Visited = Len(no_dannet_lexeme_ids))
    /\ [][Visited' # Visited =>
            /\ Visited' = Visited + 1
            /\ lexeme_id' = no_dannet_lexeme_ids[Visited']
            /\ Len(writes') <= Len(writes) + 1
            /\ prompts' = prompts]_vars
    /\ <>(pc \in {"done", "aborted"})

\* the run returned after two candidates, the second being L2
W17_TwoCandidatesVisited ==
    /\ pc = "done"
    /\ Len(no_dannet_lexeme_ids) = 2
    /\ Visited = 2
    /\ lexeme_id = "L2"

====
